---- MODULE Spec2Model ----
(***************************************************************************)
(* Emergence Explorer Chat (src/index.tsx): the conversation history with  *)
(* its trimming rule, the request to the Gemini model, the displayed       *)
(* transcript, the busy flag, the keyword score and the indicator pulse.   *)
(*                                                                         *)
(* A text is a sequence of one-character strings.  The DOM elements the    *)
(* code looks up with getElementById (chat-messages, chat-input,           *)
(* emergence-indicator) are taken to exist, as in the page the script is   *)
(* written for.                                                            *)
(***************************************************************************)
EXTENDS Integers, Sequences, FiniteSets, TLC

VARIABLES
    conversationHistory,  \* appState.conversationHistory: turns [role, content]
    chat,                 \* children of #chat-messages: entries [type, html]
    emergenceScore,       \* appState.emergenceScore
    isLoading,            \* appState.isLoading
    inputValue,           \* value of the #chat-input textarea
    indicatorActive,      \* #emergence-indicator carries the class 'active'
    timers,               \* number of pending setTimeout callbacks of updateAnalytics
    inflight,             \* requests handed to generateContent and not yet settled
    message               \* argument of the latest analyzeMessage call

vars == << conversationHistory, chat, emergenceScore, isLoading, inputValue,
           indicatorActive, timers, inflight, message >>

(***************************************************************************)
(* Literals of the source.                                                 *)
(***************************************************************************)
firstAIMessage ==
    <<"W", "e", "i", "ß", "t", " ", "d", "u", " ", "e", "i", "g", "e", "n", "t", "l", "i", "c", "h", ",", " ", "w", "a", "s", " ", "E", "m", "e", "r", "g", "e", "n", "z", " ", "b", "e", "d", "e", "u", "t", "e", "t", "?">>

emergenceKeywords ==
    << <<"ü", "b", "e", "r", "r", "a", "s", "c", "h", "e", "n", "d">>,
       <<"u", "n", "e", "r", "w", "a", "r", "t", "e", "t">>,
       <<"e", "m", "e", "r", "g", "e", "n", "t">>,
       <<"p", "l", "ö", "t", "z", "l", "i", "c", "h">>,
       <<"s", "p", "o", "n", "t", "a", "n">>,
       <<"k", "r", "e", "a", "t", "i", "v">>,
       <<"i", "n", "n", "o", "v", "a", "t", "i", "o", "n">>,
       <<"n", "e", "u">>,
       <<"a", "n", "d", "e", "r", "s">>,
       <<"d", "u", "r", "c", "h", "b", "r", "u", "c", "h">>,
       <<"i", "n", "s", "p", "i", "r", "a", "t", "i", "o", "n">>,
       <<"v", "e", "r", "b", "i", "n", "d", "u", "n", "g">>,
       <<"z", "u", "s", "a", "m", "m", "e", "n", "h", "a", "n", "g">>,
       <<"v", "e", "r", "k", "n", "ü", "p", "f", "u", "n", "g">>,
       <<"k", "o", "m", "b", "i", "n", "a", "t", "i", "o", "n">>,
       <<"s", "e", "l", "b", "s", "t", "r", "e", "f", "l", "e", "x", "i", "o", "n">>,
       <<"m", "e", "t", "a", "-", "e", "b", "e", "n", "e">>,
       <<"p", "a", "r", "a", "d", "o", "x">>,
       <<"p", "h", "i", "l", "o", "s", "o", "p", "h", "i", "e">> >>

surpriseWords ==
    << <<"ü", "b", "e", "r", "r", "a", "s", "c", "h">>,
       <<"w", "o", "w">>,
       <<"v", "e", "r", "b", "l", "ü", "f", "f">>,
       <<"e", "r", "s", "t", "a", "u", "n", "l", "i", "c", "h">>,
       <<"!">> >>

\* response.text of a reply that carries no text, and the state of `message'
\* before analyzeMessage was ever called: neither is a text.
Undefined == <<"undefined">>

NotCalled == <<"not called">>

\* The message of the TypeError that addMessage raises on content.replace
\* when content is undefined.
TypeErrorMessage == <<"Cannot read properties of undefined (reading 'replace')">>

\* the fixed parts of the two error messages, each one element of the text
\* (the cross mark in front of them is left out)
ApiErrorPrefix == <<"Fehler bei der Gemini API: ">>

ErrorPrefix == <<"Fehler: ">>

ErrorSuffix == <<"\n", "\n", "Bitte versuche es später nochmal.">>

(***************************************************************************)
(* String primitives.                                                      *)
(***************************************************************************)
UpperLetters ==
    <<"A", "B", "C", "D", "E", "F", "G", "H", "I", "J", "K", "L", "M", "N", "O", "P", "Q", "R", "S", "T", "U", "V", "W", "X", "Y", "Z", "Ä", "Ö", "Ü">>

LowerLetters ==
    <<"a", "b", "c", "d", "e", "f", "g", "h", "i", "j", "k", "l", "m", "n", "o", "p", "q", "r", "s", "t", "u", "v", "w", "x", "y", "z", "ä", "ö", "ü">>

\* the letters as tables: lower case of an upper-case letter and back
LowerOf ==
    [c \in {UpperLetters[i] : i \in DOMAIN UpperLetters} |->
        LowerLetters[CHOOSE i \in DOMAIN UpperLetters : UpperLetters[i] = c]]

UpperOf ==
    [c \in {LowerLetters[i] : i \in DOMAIN LowerLetters} |->
        UpperLetters[CHOOSE i \in DOMAIN LowerLetters : LowerLetters[i] = c]]

\* String.prototype.toLowerCase on one character
CharToLower(c) == IF c \in DOMAIN LowerOf THEN LowerOf[c] ELSE c

\* Canonicalize of a RegExp with the i flag (no u flag): the upper-case form
CharCanonicalize(c) == IF c \in DOMAIN UpperOf THEN UpperOf[c] ELSE c

\* String.prototype.toLowerCase
RECURSIVE toLowerCase(_)
toLowerCase(s) ==
    IF s = <<>> THEN <<>>
    ELSE <<CharToLower(Head(s))>> \o toLowerCase(Tail(s))

WhiteSpace == {" ", "\n"}

RECURSIVE TrimStart(_)
TrimStart(s) ==
    IF s # <<>> /\ Head(s) \in WhiteSpace THEN TrimStart(Tail(s)) ELSE s

RECURSIVE TrimEnd(_)
TrimEnd(s) ==
    IF s # <<>> /\ s[Len(s)] \in WhiteSpace
    THEN TrimEnd(SubSeq(s, 1, Len(s) - 1))
    ELSE s

\* a trim that leaves the text as it is
trimNothing(s) == s

\* String.prototype.trim
trim(s) == TrimEnd(TrimStart(s))

\* content.replace(/\n/g, '<br>'): every newline becomes the markup <br>
RECURSIVE ReplaceNewlines(_)
ReplaceNewlines(s) ==
    IF s = <<>> THEN <<>>
    ELSE (IF Head(s) = "\n" THEN <<"<br>">> ELSE <<Head(s)>>)
         \o ReplaceNewlines(Tail(s))

\* the pattern new RegExp(word, 'gi') matches the text at index i (1-based)
MatchesAt(s, word, i) ==
    /\ i + Len(word) - 1 <= Len(s)
    /\ \A k \in 1..Len(word) :
          CharCanonicalize(s[i + k - 1]) = CharCanonicalize(word[k])

\* a scan that resumes one character behind the start of a match, and so
\* counts matches that overlap
RECURSIVE MatchScanOverlapping(_, _, _)
MatchScanOverlapping(s, word, lastIndex) ==
    IF lastIndex > Len(s) THEN 0
    ELSE IF MatchesAt(s, word, lastIndex)
         THEN 1 + MatchScanOverlapping(s, word, lastIndex + 1)
         ELSE MatchScanOverlapping(s, word, lastIndex + 1)

\* the scan of String.prototype.match with a global RegExp: the leftmost
\* match at or after lastIndex is taken and the scan resumes behind it
RECURSIVE MatchScan(_, _, _)
MatchScan(s, word, lastIndex) ==
    IF lastIndex > Len(s) THEN 0
    ELSE IF MatchesAt(s, word, lastIndex)
         THEN 1 + MatchScan(s, word, lastIndex + Len(word))
         ELSE MatchScan(s, word, lastIndex + 1)

\* (lowerMessage.match(new RegExp(word, 'gi')) || []).length
MatchCount(s, word) == MatchScan(s, word, 1)

Min(a, b) == IF a <= b THEN a ELSE b

(***************************************************************************)
(* Numbers of the source.                                                  *)
(***************************************************************************)
EmergenceWeight == 15

SurpriseWeight == 10

MaxScore == 100

PulseThreshold == 40

TrimLimit == 20

TrimKeep == 18

(***************************************************************************)
(* analyzeMessage: the score of a text.                                    *)
(***************************************************************************)
\* emergenceKeywords.forEach: emergencePoints += matches * 15
RECURSIVE EmergencePoints(_, _)
EmergencePoints(lowerMessage, n) ==
    IF n = 0 THEN 0
    ELSE EmergencePoints(lowerMessage, n - 1)
         + MatchCount(lowerMessage, emergenceKeywords[n]) * EmergenceWeight

\* surpriseWords.reduce((count, word) => count + matches, 0)
RECURSIVE Surprises(_, _)
Surprises(lowerMessage, n) ==
    IF n = 0 THEN 0
    ELSE Surprises(lowerMessage, n - 1)
         + MatchCount(lowerMessage, surpriseWords[n])

\* a total that is not clamped
ScoreOfUnclamped(emergencePoints, surprises) ==
    emergencePoints + (surprises * SurpriseWeight)

\* a total that wraps around behind 100
ScoreOfWrapping(emergencePoints, surprises) ==
    (emergencePoints + (surprises * SurpriseWeight)) % (MaxScore + 1)

\* Math.min(emergencePoints + (surprises * 10), 100)
ScoreOf(emergencePoints, surprises) ==
    Min(emergencePoints + (surprises * SurpriseWeight), MaxScore)

\* an analysis that neither lowercases the text nor ignores case: the
\* words are looked for as they are written
RECURSIVE ExactScan(_, _, _)
ExactScan(s, word, lastIndex) ==
    IF lastIndex + Len(word) - 1 > Len(s) THEN 0
    ELSE IF SubSeq(s, lastIndex, lastIndex + Len(word) - 1) = word
         THEN 1 + ExactScan(s, word, lastIndex + Len(word))
         ELSE ExactScan(s, word, lastIndex + 1)

RECURSIVE ExactTotal(_, _, _)
ExactTotal(s, words, n) ==
    IF n = 0 THEN 0
    ELSE ExactTotal(s, words, n - 1) + ExactScan(s, words[n], 1)

ScoreCaseSensitive(text) ==
    ScoreOf(ExactTotal(text, emergenceKeywords, Len(emergenceKeywords))
                * EmergenceWeight,
            ExactTotal(text, surpriseWords, Len(surpriseWords)))

\* the value analyzeMessage stores in appState.emergenceScore
Score(text) ==
    LET lowerMessage == toLowerCase(text)
    IN  ScoreOf(EmergencePoints(lowerMessage, Len(emergenceKeywords)),
                Surprises(lowerMessage, Len(surpriseWords)))

\* a comparison that lets the threshold itself pass
PulsesAtThreshold(score) == score >= PulseThreshold

\* updateAnalytics: the condition under which the indicator is switched on
\* and a timer is scheduled
Pulses(score) == score > PulseThreshold

(***************************************************************************)
(* The conversation history and the displayed transcript.                  *)
(***************************************************************************)
Turn(role, content) == [role |-> role, content |-> content]

\* a cut that already sets in above 18 turns
TrimHistoryEarly(h) ==
    IF Len(h) > TrimKeep
    THEN SubSeq(h, Len(h) - TrimKeep + 1, Len(h))
    ELSE h

\* a history that is never cut
TrimHistoryNever(h) == h

\* if (length > 20) conversationHistory = conversationHistory.slice(-18)
TrimHistory(h) ==
    IF Len(h) > TrimLimit
    THEN SubSeq(h, Len(h) - TrimKeep + 1, Len(h))
    ELSE h

\* a request that carries the newest turn only
ContentsLastTurnOnly(h) ==
    << [role  |-> IF h[Len(h)].role = "assistant" THEN "model" ELSE "user",
        parts |-> << [text |-> h[Len(h)].content] >>] >>

\* conversationHistory.map(msg => ({role: ..., parts: [{text: msg.content}]}))
Contents(h) ==
    [i \in DOMAIN h |->
        [role  |-> IF h[i].role = "assistant" THEN "model" ELSE "user",
         parts |-> << [text |-> h[i].content] >>]]

\* addMessage: one more child of #chat-messages
addMessage(c, content, type) ==
    Append(c, [type |-> type, html |-> ReplaceNewlines(content)])

showThinkingMessage(c) ==
    Append(c, [type |-> "thinking", html |-> <<"Gemini denkt nach...">>])

\* removes the element with id thinking-message (the first in document order)
hideThinkingMessage(c) ==
    IF \E i \in DOMAIN c : c[i].type = "thinking"
    THEN LET k == CHOOSE i \in DOMAIN c :
                     /\ c[i].type = "thinking"
                     /\ \A j \in 1..(i - 1) : c[j].type # "thinking"
         IN  SubSeq(c, 1, k - 1) \o SubSeq(c, k + 1, Len(c))
    ELSE c

CountType(c, type) == Cardinality({i \in DOMAIN c : c[i].type = type})

RemoveAt(s, i) == SubSeq(s, 1, i - 1) \o SubSeq(s, i + 1, Len(s))

(***************************************************************************)
(* Bounds of the model and the finite sets the inputs are drawn from.      *)
(***************************************************************************)
\* accepted sends of one run of the long specification
MaxSends == 11

\* failed exchanges (two system entries each) plus replies with a non-zero
\* score, in one run of the long specification
MaxUnusual == 3

\* accepted sends of one run of the short specification
MaxShortSends == 3

\* fragments a text handed to analyzeMessage directly is put together from
MaxFragments == 3

PlainReply == <<"a", "h", "a">>

PulseReply == <<"N", "E", "U", "!", " ", "w", "o", "w", "!">>

\* what the user types: blanks only, or a text with a blank in front
UserTexts == { <<" ">>, <<" ", "n", "e", "u", "!">> }

\* the texts of the suggestion buttons
Suggestions == { <<"n", "e", "u", "!">> }

\* replies of the long specification
ReplyTexts == { PlainReply, PulseReply }

\* replies of the short specification: no match, the empty text, a score of
\* exactly 40, a score above 40, a raw total above 100
ShortReplyTexts ==
    { PlainReply,
      <<>>,
      <<"n", "e", "u", " ", "N", "e", "u", "!">>,
      PulseReply,
      <<"n", "e", "u", "!", "n", "e", "u", "!", "n", "e", "u", "!",
        "n", "e", "u", "!", "n", "e", "u", "!">> }

\* pieces of text: keywords, surprise markers, parts of them, upper case
Fragments ==
    { <<"w", "o", "w">>,
      <<"o", "w">>,
      <<"n", "e", "u">>,
      <<"N">>,
      <<"E", "u">>,
      <<"!">>,
      <<"ü", "b", "e", "r", "r", "a", "s", "c", "h", "e", "n", "d">>,
      <<"Ü", "b", "e", "r", "r", "a", "s", "c", "h">>,
      <<"n", "e", "u", "n", "e", "u", "n", "e", "u">> }

RECURSIVE Concat(_)
Concat(pieces) ==
    IF pieces = <<>> THEN <<>> ELSE Head(pieces) \o Concat(Tail(pieces))

\* the texts analyzeMessage is called with directly
AnalyzeTexts ==
    { Concat(pieces) :
        pieces \in UNION { [1..n -> Fragments] : n \in 0..MaxFragments } }

\* error.message of a rejected generateContent call
ErrorMessages == { <<"quota">> }

\* entries of the transcript that count against MaxUnusual
Unusual(c) ==
    Cardinality({i \in 2..Len(c) :
                    \/ c[i].type = "system"
                    \/ c[i].type = "ai" /\ c[i].html # PlainReply})

(***************************************************************************)
(* The state after init(): initiateConversation has shown the opening      *)
(* message and pushed it to the history.                                   *)
(***************************************************************************)
Init ==
    /\ conversationHistory = << Turn("assistant", firstAIMessage) >>
    /\ chat = addMessage(<<>>, firstAIMessage, "ai")
    /\ emergenceScore = 0
    /\ isLoading = FALSE
    /\ inputValue = <<>>
    /\ indicatorActive = FALSE
    /\ timers = 0
    /\ inflight = <<>>
    /\ message = NotCalled

(***************************************************************************)
(* The user types into the textarea; setLoading disables it while a        *)
(* request is in flight.                                                   *)
(***************************************************************************)
TypeInput(text) ==
    /\ ~isLoading
    /\ inputValue' = text
    /\ UNCHANGED << conversationHistory, chat, emergenceScore, isLoading,
                    indicatorActive, timers, inflight, message >>

\* a check that looks at the text only
RejectedEmptyOnly(msg) == msg = <<>>

\* sendMessage: if (!message || appState.isLoading) return
Rejected(msg) == msg = <<>> \/ isLoading

\* a sendMessage that also analyzes the user's own message
sendMessageFromAnalyzing(value, maxSends) ==
    LET msg == trim(value)
    IN  IF Rejected(msg)
        THEN /\ inputValue' = value
             /\ UNCHANGED << conversationHistory, chat, emergenceScore,
                             isLoading, indicatorActive, timers, inflight,
                             message >>
        ELSE /\ CountType(chat, "human") < maxSends
             /\ chat' = showThinkingMessage(addMessage(chat, msg, "human"))
             /\ inputValue' = <<>>
             /\ conversationHistory' =
                    Append(conversationHistory, Turn("user", msg))
             /\ isLoading' = TRUE
             /\ inflight' = Append(inflight, Contents(conversationHistory'))
             /\ message' = msg
             /\ emergenceScore' = Score(msg)
             /\ indicatorActive' = (indicatorActive \/ Pulses(Score(msg)))
             /\ timers' = IF Pulses(Score(msg)) THEN timers + 1 ELSE timers

\* sendMessage up to its await, with `value' in the textarea: the message is
\* shown and pushed, the busy flag set, and getAIResponse builds the request
\* and hands it to generateContent
sendMessageFrom(value, maxSends) ==
    LET msg == trim(value)
    IN  IF Rejected(msg)
        THEN /\ inputValue' = value
             /\ UNCHANGED << conversationHistory, chat, emergenceScore,
                             isLoading, indicatorActive, timers, inflight,
                             message >>
        ELSE /\ CountType(chat, "human") < maxSends
             /\ chat' = showThinkingMessage(addMessage(chat, msg, "human"))
             /\ inputValue' = <<>>
             /\ conversationHistory' =
                    Append(conversationHistory, Turn("user", msg))
             /\ isLoading' = TRUE
             /\ inflight' = Append(inflight, Contents(conversationHistory'))
             /\ UNCHANGED << emergenceScore, indicatorActive, timers, message >>

sendMessage(maxSends) == sendMessageFrom(inputValue, maxSends)

sendSuggestion(text, maxSends) == sendMessageFrom(text, maxSends)

\* updateAnalytics
updateAnalytics(score) ==
    IF Pulses(score)
    THEN /\ indicatorActive' = TRUE
         /\ timers' = timers + 1
    ELSE UNCHANGED << indicatorActive, timers >>

\* an analysis that adds to the score it finds
analyzeMessageAccumulating(text) ==
    /\ message' = text
    /\ emergenceScore' = Min(emergenceScore + Score(text), MaxScore)
    /\ updateAnalytics(emergenceScore')

\* analyzeMessage
analyzeMessage(text) ==
    /\ message' = text
    /\ emergenceScore' = Score(text)
    /\ updateAnalytics(emergenceScore')

\* a catch block that takes the user's turn back
HistoryOnErrorRollback(h) == SubSeq(h, 1, Len(h) - 1)

\* the catch blocks of getAIResponse and of sendMessage leave the history as
\* it is
HistoryOnError(h) == h

\* the two catch blocks: getAIResponse shows the error and rethrows it,
\* sendMessage shows it again
ShowError(c, errorMessage) ==
    addMessage(addMessage(c, ApiErrorPrefix \o errorMessage, "system"),
               ErrorPrefix \o errorMessage \o ErrorSuffix, "system")

\* a busy flag that is cleared only when getAIResponse returned normally
LoadingAfterExchangeNoRelease(failed) == failed

\* setLoading(false) behind the try/catch of sendMessage: reached whether
\* getAIResponse returned or threw
LoadingAfterExchange(failed) == FALSE

\* generateContent resolves with a reply that carries the text `text': the
\* rest of getAIResponse and then the rest of sendMessage run
generateContentResolves(i, text, maxUnusual) ==
    /\ i \in DOMAIN inflight
    /\ conversationHistory' =
           TrimHistory(Append(conversationHistory, Turn("assistant", text)))
    /\ chat' = hideThinkingMessage(addMessage(chat, text, "ai"))
    /\ Unusual(chat') <= maxUnusual
    /\ analyzeMessage(text)
    /\ isLoading' = LoadingAfterExchange(FALSE)
    /\ inflight' = RemoveAt(inflight, i)
    /\ UNCHANGED inputValue

\* generateContent resolves with a reply without text (response.text is
\* undefined): the turn is pushed and trimmed, addMessage throws a TypeError
\* on content.replace before it appends anything, and both catch blocks run
generateContentResolvesWithoutText(i, maxUnusual) ==
    /\ i \in DOMAIN inflight
    /\ conversationHistory' =
           TrimHistory(Append(conversationHistory,
                              Turn("assistant", Undefined)))
    /\ chat' = hideThinkingMessage(ShowError(chat, TypeErrorMessage))
    /\ Unusual(chat') <= maxUnusual
    /\ isLoading' = LoadingAfterExchange(TRUE)
    /\ inflight' = RemoveAt(inflight, i)
    /\ UNCHANGED << emergenceScore, inputValue, indicatorActive, timers,
                    message >>

\* generateContent rejects with `error': both catch blocks run
generateContentRejects(i, errorMessage, maxUnusual) ==
    /\ i \in DOMAIN inflight
    /\ conversationHistory' = HistoryOnError(conversationHistory)
    /\ chat' = hideThinkingMessage(ShowError(chat, errorMessage))
    /\ Unusual(chat') <= maxUnusual
    /\ isLoading' = LoadingAfterExchange(TRUE)
    /\ inflight' = RemoveAt(inflight, i)
    /\ UNCHANGED << emergenceScore, inputValue, indicatorActive, timers,
                    message >>

\* a setTimeout callback of updateAnalytics runs
timerFires ==
    /\ timers > 0
    /\ timers' = timers - 1
    /\ indicatorActive' = FALSE
    /\ UNCHANGED << conversationHistory, chat, emergenceScore, isLoading,
                    inputValue, inflight, message >>

\* analyzeMessage called on its own, once
analyzeMessageCall(text) ==
    /\ message = NotCalled
    /\ analyzeMessage(text)
    /\ UNCHANGED << conversationHistory, chat, isLoading, inputValue, inflight >>

(***************************************************************************)
(* Specifications.                                                         *)
(***************************************************************************)
\* long runs, few kinds of reply: the history reaches its trimming rule
Next ==
    \/ \E text \in UserTexts : TypeInput(text)
    \/ sendMessage(MaxSends)
    \/ \E text \in Suggestions : sendSuggestion(text, MaxSends)
    \/ \E i \in DOMAIN inflight, text \in ReplyTexts :
          generateContentResolves(i, text, MaxUnusual)
    \/ \E i \in DOMAIN inflight :
          generateContentResolvesWithoutText(i, MaxUnusual)
    \/ \E i \in DOMAIN inflight, e \in ErrorMessages :
          generateContentRejects(i, e, MaxUnusual)
    \/ timerFires

Spec == Init /\ [][Next]_vars

\* short runs, every kind of reply
NextShort ==
    \/ \E text \in UserTexts : TypeInput(text)
    \/ sendMessage(MaxShortSends)
    \/ \E text \in Suggestions : sendSuggestion(text, MaxShortSends)
    \/ \E i \in DOMAIN inflight, text \in ShortReplyTexts :
          generateContentResolves(i, text, 2 * MaxShortSends)
    \/ \E i \in DOMAIN inflight :
          generateContentResolvesWithoutText(i, 2 * MaxShortSends)
    \/ \E i \in DOMAIN inflight, e \in ErrorMessages :
          generateContentRejects(i, e, 2 * MaxShortSends)
    \/ timerFires

SpecShort == Init /\ [][NextShort]_vars

\* the promise of generateContent settles: it resolves or it rejects
Settle ==
    \E i \in DOMAIN inflight :
        \/ \E text \in ShortReplyTexts :
              generateContentResolves(i, text, 2 * MaxShortSends)
        \/ generateContentResolvesWithoutText(i, 2 * MaxShortSends)
        \/ \E e \in ErrorMessages :
              generateContentRejects(i, e, 2 * MaxShortSends)

\* the short specification with every pending call settling in the end
FairShort == SpecShort /\ WF_vars(Settle)

\* the short specification with every scheduled timer running in the end
FairPulse == SpecShort /\ WF_vars(timerFires)

\* analyzeMessage alone, on many texts
NextAnalyze ==
    \/ \E text \in AnalyzeTexts : analyzeMessageCall(text)
    \/ timerFires

SpecAnalyze == Init /\ [][NextAnalyze]_vars

(***************************************************************************)
(* Steps and states the claims speak about.                                *)
(***************************************************************************)
LastOf(s) == s[Len(s)]

\* the pending generateContent call settles: the exchange ends
SettledStep == isLoading /\ ~isLoading'

\* a settled exchange that appended a turn to the history
AppendedStep == SettledStep /\ conversationHistory' # conversationHistory

\* generateContent rejected: the transcript ends with the error of the call
CallFailedStep ==
    /\ SettledStep
    /\ \E e \in ErrorMessages :
          LastOf(chat').html = ReplaceNewlines(ErrorPrefix \o e \o ErrorSuffix)

\* the transcript ends with the error of a rejected call
EndsWithCallError(c) ==
    /\ LastOf(c).type = "system"
    /\ \E e \in ErrorMessages :
          LastOf(c).html = ReplaceNewlines(ErrorPrefix \o e \o ErrorSuffix)

OpeningTurn == Turn("assistant", firstAIMessage)

(***************************************************************************)
(* C1: whenever the last turn of the history is an assistant turn, that    *)
(* is in every state reached by the append of a reply and the trim that    *)
(* follows it (and until the next user turn is pushed), the history holds  *)
(* at most 20 turns.                                                       *)
(***************************************************************************)
C1_TrimmedAfterAssistantAppend ==
    LastOf(conversationHistory).role = "assistant"
        => Len(conversationHistory) <= TrimLimit

\* the trim has fired: 18 turns are left and the opening turn is gone
C1_Witness ==
    /\ Len(conversationHistory) = TrimKeep
    /\ LastOf(conversationHistory).role = "assistant"
    /\ conversationHistory[1] # OpeningTurn

(***************************************************************************)
(* C2 (as claimed): the history, and every request built from it, holds    *)
(* at most 20 turns in every state.  The code trims only after an          *)
(* assistant append, so a user append on a history of 20 turns is sent     *)
(* with 21.                                                                *)
(***************************************************************************)
C2_HistoryAtMost20Always ==
    /\ Len(conversationHistory) <= TrimLimit
    /\ \A i \in DOMAIN inflight : Len(inflight[i]) <= TrimLimit

(***************************************************************************)
(* C3 (as claimed): every step in which the trim fires starts from a       *)
(* history that has 21 turns once the reply is appended, and leaves its    *)
(* last 18 turns, 3 turns dropped.                                         *)
(***************************************************************************)
C3_TrimFiresAt21 ==
    [][ (AppendedStep /\ Len(conversationHistory) + 1 > TrimLimit) =>
          LET pre == Append(conversationHistory, LastOf(conversationHistory'))
          IN  /\ Len(pre) = 21
              /\ conversationHistory' = SubSeq(pre, Len(pre) - 17, Len(pre))
              /\ Len(pre) - Len(conversationHistory') = 3 ]_vars

(***************************************************************************)
(* C4: a step in which generateContent rejects leaves the history as it    *)
(* is, equal turn by turn to the request that was submitted, with the      *)
(* user's turn last; and the request submitted next, after such a failure, *)
(* carries that user turn right in front of the new one.                   *)
(***************************************************************************)
C4_FailedCallKeepsHistory ==
    [][ /\ CallFailedStep =>
              /\ conversationHistory' = conversationHistory
              /\ \A i \in DOMAIN inflight :
                    inflight[i] = Contents(conversationHistory')
              /\ LastOf(conversationHistory').role = "user"
        /\ (~isLoading /\ isLoading' /\ EndsWithCallError(chat)) =>
              LET n == Len(conversationHistory)
                  request == LastOf(inflight')
              IN  /\ Len(request) = n + 1
                  /\ request[n].role = "user"
                  /\ request[n].parts[1].text = conversationHistory[n].content
                  /\ conversationHistory[n].role = "user" ]_vars

\* a request is in flight that was submitted after a rejected call
C4_Witness ==
    /\ isLoading
    /\ inflight # <<>>
    /\ \E i \in DOMAIN chat : EndsWithCallError(SubSeq(chat, 1, i))
    /\ chat[Len(chat) - 1].type = "human"
    /\ Len(conversationHistory) >= 2
    /\ conversationHistory[Len(conversationHistory) - 1].role = "user"

(***************************************************************************)
(* C5 (as claimed): a step in which generateContent rejects adds exactly   *)
(* one system entry to the transcript.  The code shows the error in the    *)
(* catch block of getAIResponse, rethrows it, and shows it again in the    *)
(* catch block of sendMessage.                                             *)
(***************************************************************************)
C5_OneSystemEntryPerFailure ==
    [][ CallFailedStep =>
          CountType(chat', "system") = CountType(chat, "system") + 1 ]_vars

(***************************************************************************)
(* C6: the busy flag is set exactly while a request is in flight, and      *)
(* whenever it is set it is cleared again, given that the pending call     *)
(* settles.                                                                *)
(***************************************************************************)
C6_LoadingCleared ==
    /\ [](isLoading <=> inflight # <<>>)
    /\ (isLoading ~> ~isLoading)

\* the flag is clear again after an exchange that failed
C6_Witness ==
    /\ ~isLoading
    /\ inflight = <<>>
    /\ CountType(chat, "system") > 0

(***************************************************************************)
(* C7: at most one request is in flight, and no step taken while the busy  *)
(* flag is set and stays set (a send attempt by sendMessage or by          *)
(* sendSuggestion is such a step) changes the history, the transcript,     *)
(* the score or the request in flight.                                     *)
(***************************************************************************)
C7_SingleRequest ==
    /\ [](Len(inflight) <= 1)
    /\ [][ (isLoading /\ isLoading') =>
              UNCHANGED << conversationHistory, chat, emergenceScore,
                           inflight >> ]_vars

\* sendSuggestion was called while a request was in flight: it has put its
\* text into the textarea, and the one request is still the only one
C7_Witness ==
    /\ isLoading
    /\ inputValue \in Suggestions
    /\ Len(inflight) = 1

(***************************************************************************)
(* The score as the claims state it: occurrences of a word are the places  *)
(* of the lowercased text where the word stands, character for character;  *)
(* the count is the largest number of them that do not overlap.            *)
(***************************************************************************)
Occurrences(s, word) ==
    {i \in 1..(Len(s) - Len(word) + 1) : SubSeq(s, i, i + Len(word) - 1) = word}

NonOverlapping(places, n) ==
    \A i, j \in places : i < j => j - i >= n

OccurrenceCount(s, word) ==
    LET sizes == {Cardinality(places) :
                    places \in {q \in SUBSET Occurrences(s, word) :
                                   NonOverlapping(q, Len(word))}}
    IN  CHOOSE n \in sizes : \A k \in sizes : k <= n

RECURSIVE TotalOccurrences(_, _, _)
TotalOccurrences(s, words, n) ==
    IF n = 0 THEN 0
    ELSE TotalOccurrences(s, words, n - 1) + OccurrenceCount(s, words[n])

ClaimedScore(text) ==
    LET lower == toLowerCase(text)
        E == TotalOccurrences(lower, emergenceKeywords, Len(emergenceKeywords))
        S == TotalOccurrences(lower, surpriseWords, Len(surpriseWords))
    IN  Min(15 * E + 10 * S, 100)

(***************************************************************************)
(* C8: analyzeMessage stores min(15*E + 10*S, 100), E and S being the      *)
(* numbers of non-overlapping occurrences of the emergence keywords and    *)
(* of the surprise markers in the lowercased text, each list counted on    *)
(* its own.                                                                *)
(***************************************************************************)
C8_ScoreFormula ==
    message # NotCalled => emergenceScore = ClaimedScore(message)

\* a text in which a keyword and a surprise marker share a stretch
\* (überraschend, überrasch) and a marker overlaps itself (wowow): the
\* stretch counts 15 + 10, wowow counts 10
C8_Witness ==
    /\ message = << "ü", "b", "e", "r", "r", "a", "s", "c", "h", "e", "n",
                    "d", "w", "o", "w", "o", "w" >>
    /\ emergenceScore = 35

(***************************************************************************)
(* C9: the stored score is a number from 0 to 100 in every state of the    *)
(* session.                                                                *)
(***************************************************************************)
C9_ScoreInRange == emergenceScore \in 0..100

\* a reply whose raw total is 125 has been stored as 100
C9_Witness ==
    /\ message # NotCalled
    /\ 15 * TotalOccurrences(toLowerCase(message), emergenceKeywords,
                             Len(emergenceKeywords))
         + 10 * TotalOccurrences(toLowerCase(message), surpriseWords,
                                 Len(surpriseWords)) > 100
    /\ emergenceScore = 100

(***************************************************************************)
(* C10: after a successful reply (the session is idle and the transcript   *)
(* ends with the reply) the stored score is the score of that reply's      *)
(* text alone, the last turn of the history; a reply without any match     *)
(* stores 0.                                                               *)
(***************************************************************************)
C10_ScoreOverwritten ==
    (~isLoading /\ Len(chat) > 1 /\ LastOf(chat).type = "ai") =>
        emergenceScore = ClaimedScore(LastOf(conversationHistory).content)

\* the empty reply has set the score to 0 after a reply that scored 45
C10_Witness ==
    /\ ~isLoading
    /\ Len(chat) > 1
    /\ LastOf(chat) = [type |-> "ai", html |-> <<>>]
    /\ LastOf(conversationHistory).content = <<>>
    /\ \E i \in DOMAIN chat : chat[i] = [type |-> "ai", html |-> PulseReply]
    /\ emergenceScore = 0

(***************************************************************************)
(* C11: the score never goes down when one more keyword (neu) or one more  *)
(* surprise marker (!) is added to the text, and a text whose weighted     *)
(* total 15*E + 10*S is 100 or more scores exactly 100.                    *)
(***************************************************************************)
ClaimedTotal(text) ==
    LET lower == toLowerCase(text)
    IN  15 * TotalOccurrences(lower, emergenceKeywords, Len(emergenceKeywords))
        + 10 * TotalOccurrences(lower, surpriseWords, Len(surpriseWords))

C11_MonotonicAndSaturating ==
    message # NotCalled =>
        /\ Score(message \o <<"n", "e", "u">>) >= emergenceScore
        /\ Score(message \o <<"!">>) >= emergenceScore
        /\ ClaimedTotal(message) >= 100 => emergenceScore = 100

\* seven occurrences of a keyword: a total of 105, stored as 100
C11_Witness ==
    /\ message = << "n", "e", "u", "n", "e", "u", "n", "e", "u",
                    "n", "e", "u", "n", "e", "u", "n", "e", "u",
                    "n", "e", "u" >>
    /\ emergenceScore = 100

(***************************************************************************)
(* C12: the score of a text is the score of the same text with letters     *)
(* changed to upper case: all of them, the first one, those at odd places, *)
(* those at even places.                                                   *)
(***************************************************************************)
CharToUpper(c) == IF c \in DOMAIN UpperOf THEN UpperOf[c] ELSE c

RECURSIVE UpperFrom(_, _, _)
UpperFrom(s, places, i) ==
    IF i > Len(s) THEN <<>>
    ELSE <<IF i \in places THEN CharToUpper(s[i]) ELSE s[i]>>
         \o UpperFrom(s, places, i + 1)

UpperAt(s, places) == UpperFrom(s, places, 1)

SuccessStep == SettledStep /\ LastOf(chat').type = "ai"

(***************************************************************************)
(* C13: the score changes only in the step that handles a successful       *)
(* reply; every other step that is not a timer (typing, an accepted or a   *)
(* rejected send, a failed exchange) leaves the score and the indicator    *)
(* as they are.                                                            *)
(***************************************************************************)
C13_ScoreWrittenByReplyOnly ==
    [][ /\ emergenceScore' # emergenceScore => SuccessStep
        /\ (~SuccessStep /\ timers' = timers) =>
              UNCHANGED << emergenceScore, indicatorActive >> ]_vars

\* a reply scored 45 and switched the indicator on; the next send (neu!,
\* a text with a keyword) was accepted and its call failed: the score is
\* still 45 and the indicator still on
C13_Witness ==
    /\ ~isLoading
    /\ EndsWithCallError(chat)
    /\ chat[Len(chat) - 2].type = "human"
    /\ chat[Len(chat) - 3] = [type |-> "ai", html |-> PulseReply]
    /\ emergenceScore = 45
    /\ indicatorActive
    /\ timers = 1

(***************************************************************************)
(* C14: a successful reply switches the indicator on and schedules a       *)
(* timer exactly when its score is above 40; at 40 or below it changes     *)
(* neither.  An active indicator is switched off again, given that         *)
(* scheduled timers run.                                                   *)
(***************************************************************************)
C14_PulseAbove40 ==
    /\ [][ SuccessStep =>
              IF emergenceScore' > 40
              THEN indicatorActive' /\ timers' = timers + 1
              ELSE UNCHANGED << indicatorActive, timers >> ]_vars
    /\ [](indicatorActive => timers > 0)
    /\ (indicatorActive ~> ~indicatorActive)

\* a reply has scored exactly 40: nothing is switched on, no timer pending
C14_Witness ==
    /\ ~isLoading
    /\ LastOf(chat).type = "ai"
    /\ Len(chat) > 1
    /\ emergenceScore = 40
    /\ ~indicatorActive
    /\ timers = 0
    /\ \E i \in DOMAIN chat : chat[i] = [type |-> "ai", html |-> PulseReply]

(***************************************************************************)
(* C15 (as claimed): every reply above 40 schedules a timer of its own,    *)
(* and the indicator is active as long as a timer is pending, that is      *)
(* until the timer of the latest such reply has run.  In the code the      *)
(* timer of the earlier reply switches the indicator off while the timer   *)
(* of the later reply is still pending.                                    *)
(***************************************************************************)
C15_ActiveUntilLastTimer ==
    /\ [][ (SuccessStep /\ emergenceScore' > 40) =>
              timers' = timers + 1 ]_vars
    /\ [](timers > 0 => indicatorActive)

(***************************************************************************)
(* C16: every request in flight has one entry per turn of the history, in  *)
(* the same order, with the turn's content as its text and the role model  *)
(* for assistant, user for user.                                           *)
(***************************************************************************)
C16_RequestCarriesFullHistory ==
    \A i \in DOMAIN inflight :
        LET request == inflight[i]
        IN  /\ Len(request) = Len(conversationHistory)
            /\ \A k \in DOMAIN request :
                  /\ request[k].parts = << [text |-> conversationHistory[k].content] >>
                  /\ conversationHistory[k].role = "assistant"
                        => request[k].role = "model"
                  /\ conversationHistory[k].role = "user"
                        => request[k].role = "user"
                  /\ conversationHistory[k].role \in {"assistant", "user"}

\* a history of more than 20 turns, user and assistant turns, is in flight
C16_Witness ==
    /\ Len(inflight) = 1
    /\ Len(conversationHistory) > TrimLimit
    /\ \E k \in DOMAIN conversationHistory :
          conversationHistory[k].role = "assistant"

(***************************************************************************)
(* C17: before the first accepted submit the history is the opening        *)
(* assistant turn alone; after the first exchange, if it succeeded, it     *)
(* holds 3 turns, assistant, user, assistant; an accepted submit adds one  *)
(* turn and a successful reply that does not trigger the trim adds one     *)
(* more, 2 for the exchange.                                               *)
(***************************************************************************)
C17_HistoryGrowth ==
    /\ [](CountType(chat, "human") = 0 =>
              conversationHistory = << OpeningTurn >>)
    /\ []((CountType(chat, "human") = 1 /\ ~isLoading
             /\ LastOf(chat).type = "ai") =>
              /\ Len(conversationHistory) = 3
              /\ conversationHistory[1] = OpeningTurn
              /\ conversationHistory[2].role = "user"
              /\ conversationHistory[3].role = "assistant")
    /\ [][ (~isLoading /\ isLoading') =>
              Len(conversationHistory') = Len(conversationHistory) + 1 ]_vars
    /\ [][ (SuccessStep /\ Len(conversationHistory) + 1 <= TrimLimit) =>
              /\ Len(conversationHistory') = Len(conversationHistory) + 1
              /\ LastOf(conversationHistory').role = "assistant" ]_vars

\* a successful exchange has taken the history from 18 turns to 20
C17_Witness ==
    /\ ~isLoading
    /\ Len(conversationHistory) = TrimLimit
    /\ LastOf(chat).type = "ai"
    /\ conversationHistory[1] # OpeningTurn

(***************************************************************************)
(* C18: a sendMessage step taken with an empty or blank textarea changes   *)
(* nothing: no turn, no entry (and so no error) in the transcript, no      *)
(* request, the busy flag as it was.                                       *)
(***************************************************************************)
Blank(s) == \A i \in DOMAIN s : s[i] \in WhiteSpace

C18_BlankSubmitIgnored ==
    [][ (Blank(inputValue) /\ sendMessage(MaxShortSends)) =>
          UNCHANGED << conversationHistory, chat, isLoading, inflight,
                       emergenceScore, indicatorActive, timers >> ]_vars

\* blanks are in the textarea of an idle session that has had an exchange:
\* sendMessage is enabled here and is the step the claim is about
C18_Witness ==
    /\ ~isLoading
    /\ inputValue = << " " >>
    /\ CountType(chat, "human") >= 1
    /\ ENABLED sendMessage(MaxShortSends)

(***************************************************************************)
(* C19 (as claimed): an exchange that ends with a system error entry in    *)
(* the transcript leaves the history as it was, its last turn the user's,  *)
(* and the request submitted next carries no assistant turn for it.  The   *)
(* code pushes the assistant turn (line 107) before addMessage reads the   *)
(* reply text (line 128), and no catch block takes it back.                *)
(***************************************************************************)
FailedStep == SettledStep /\ LastOf(chat').type = "system"

C19_FailedExchangeLeavesNoAssistantTurn ==
    [][ /\ FailedStep =>
              /\ conversationHistory' = conversationHistory
              /\ LastOf(conversationHistory').role = "user"
        /\ (~isLoading /\ isLoading' /\ LastOf(chat).type = "system") =>
              LET n == Len(conversationHistory)
              IN  LastOf(inflight')[n].role = "user" ]_vars

(***************************************************************************)
(* C20 (as claimed): with no request in flight, the history is the tail    *)
(* of the transcript without its system entries: as many entries as the    *)
(* history has turns, in order, ai for assistant and human for user, each  *)
(* showing its turn's content; and no step takes an entry that is not the  *)
(* thinking placeholder out of the transcript.  The turn pushed for a      *)
(* reply without text (C19) is in the history and was never shown.         *)
(***************************************************************************)
NotSystem(m) == m.type # "system"

NotThinking(m) == m.type # "thinking"

IsPrefix(s, t) == Len(s) <= Len(t) /\ SubSeq(t, 1, Len(s)) = s

HistoryIsShown ==
    LET shown == SelectSeq(chat, NotSystem)
        n == Len(conversationHistory)
        m == Len(shown)
    IN  /\ n <= m
        /\ \A k \in 1..n :
              LET entry == shown[m - n + k]
                  turn == conversationHistory[k]
              IN  /\ entry.type = IF turn.role = "assistant" THEN "ai" ELSE "human"
                  /\ entry.html = ReplaceNewlines(turn.content)

C20_HistoryIsTranscriptTail ==
    /\ [](inflight = <<>> => HistoryIsShown)
    /\ [][ IsPrefix(SelectSeq(chat, NotThinking),
                    SelectSeq(chat', NotThinking)) ]_vars

====
